---- MODULE Spec2Model ----
(***************************************************************************)
(* A model of server.py: the process-wide MusicCache (reference-counted    *)
(* decoded audio, decoded on a thread pool), the per-client Session and    *)
(* the Flask request handlers that drive them through the session          *)
(* registry; and of main.py, the desktop variant of the game (the Game     *)
(* form and its button callbacks).                                         *)
(*                                                                         *)
(* The specifications share the state and the operators:                   *)
(*   SpecCache  load / unload calls on the cache alone, one at a time;     *)
(*   Spec       the request handlers, one whole request per step;          *)
(*   SpecConc   the handlers as threads of the Flask server, interleaving  *)
(*              at the statements of MusicCache;                           *)
(*   SpecLive   the threads of SpecConc under fair scheduling;             *)
(*   SpecPair   the handlers for two sessions, decodes that may fail;      *)
(*   SpecGate   two sessions among requests without a session;             *)
(*   SpecGame   the callbacks of the desktop form, one per step.           *)
(***************************************************************************)
EXTENDS Integers, Sequences, FiniteSets, TLC

(***************************************************************************)
(* Bounds of the model.                                                    *)
(***************************************************************************)
\* size of the catalog `musics` (the audio files found under the root)
NTracks == 4
\* number of session tokens uuid4 hands out in a run of Spec
MaxTokens == 1
\* number of clients (threads of the server) in a run of SpecConc
NThreads == 2
\* number of /next requests a client makes in a run of SpecConc
MaxNext == 1
\* number of load calls in a run of SpecCache
MaxLoads == 3
\* number of session tokens uuid4 hands out in a run of SpecPair
MaxPair == 2

(***************************************************************************)
(* Configuration (game.toml), in units of 375 ms: a clip of 3 s, a tenth   *)
(* of the track skipped at either end.                                     *)
(***************************************************************************)
skip_start_num == 1
skip_end_num == 1
skip_den == 10
play_time == 8

\* musics: the catalog; a music is identified with its id
Tracks == 1..NTracks

\* len(AudioSegment) of the decoded music: track 1 is shorter than a clip,
\* the others leave a range of two or three starts
AudioLength(m) == IF m = 1 THEN 6 ELSE 9 + m

\* Python's None, and a value that is not None
None == <<>>
Some(v) == <<v>>

\* a function without the key k (del d[k])
Without(f, k) == [x \in (DOMAIN f) \ {k} |-> f[x]]

\* a function with d[k] = v (d[k] = v)
With(f, k, v) == [x \in (DOMAIN f) \cup {k} |-> IF x = k THEN v ELSE f[x]]

VARIABLES
  audio_data,   \* MusicCache._audio_data: id -> entry, a dict with the keys
                \* "references" and one of "task" (a future) and "data"
  tasks,        \* the futures of the executor that are still referenced:
                \* future -> "running", "done" or "failed" (_load_music raised)
  decodes,      \* id -> number of _load_music tasks submitted for it so far
  sessions,     \* the registry `sessions`: token -> Session
  issued,       \* number of tokens uuid4 has produced for login
  last,         \* the last request and its response
  notes,        \* token -> what has happened to the session's current music:
                \* how it was finalized, how many clips of it were served
  loads,        \* SpecCache: id -> number of load calls made
  unloads,      \* SpecCache: id -> number of unload calls made
  threads,      \* SpecConc: thread -> its position and local variables
  game          \* SpecGame: the form of main.py on the window and its fields

vars == <<audio_data, tasks, decodes, sessions, issued, last, notes, loads, unloads, threads,
          game>>

(***************************************************************************)
(* MusicCache.  The cache is passed to the operators as the record         *)
(* [audio_data, tasks, decodes] and returned changed.                      *)
(***************************************************************************)
Cache == [audio_data |-> audio_data, tasks |-> tasks, decodes |-> decodes]

\* the futures an entry of the cache still refers to
EntryTasks(ad) == {ad[m].task : m \in {x \in DOMAIN ad : "task" \in DOMAIN ad[x]}}

\* a future nobody refers to is dropped (its result is discarded)
Collect(mc, held) ==
  [mc EXCEPT !.tasks = [f \in (DOMAIN mc.tasks) \cap (EntryTasks(mc.audio_data) \cup held)
                          |-> mc.tasks[f]]]

\* ThreadPoolExecutor.submit: a new future, running.  A future is written
\* <<music, k>>, k the least number that tells it from the futures for the
\* same music that are still referenced
NewTask(mc, held, music) ==
  LET used == {f \in (DOMAIN mc.tasks) \cup held : f[1] = music}
  IN  <<music, CHOOSE k \in 1..(Cardinality(used) + 1) :
                 /\ <<music, k>> \notin used
                 /\ \A j \in 1..(k - 1) : <<music, j>> \in used>>

IncreaseReference(mc, music_id) ==
  [mc EXCEPT !.audio_data[music_id].references = @ + 1]

\* _decrease_reference without the removal at zero
DecreaseReferenceKeepsEntry(mc, music_id) ==
  [mc EXCEPT !.audio_data[music_id].references = @ - 1]

DecreaseReference(mc, music_id) ==
  LET target == [mc.audio_data[music_id] EXCEPT !.references = @ - 1]
  IN  IF target.references = 0
        THEN [mc EXCEPT !.audio_data = Without(@, music_id)]
        ELSE [mc EXCEPT !.audio_data[music_id] = target]

\* the entry load creates, with the task it submits
CreateEntry(mc, music, held) ==
  LET f == NewTask(mc, held, music)
  IN  [mc EXCEPT !.audio_data = With(@, music, [references |-> 1, task |-> f]),
                 !.tasks = With(@, f, "running"),
                 !.decodes[music] = @ + 1]

MC_load(mc, music) ==
  IF music \in DOMAIN mc.audio_data
    THEN IncreaseReference(mc, music)
    ELSE CreateEntry(mc, music, {})

MC_unload(mc, music_id) ==
  IF music_id \notin DOMAIN mc.audio_data
    THEN mc
    ELSE Collect(DecreaseReference(mc, music_id), {})

\* get has to wait: the entry holds a task that has not finished
GetBlocks(mc, music_id) ==
  /\ music_id \in DOMAIN mc.audio_data
  /\ "task" \in DOMAIN mc.audio_data[music_id]
  /\ mc.tasks[mc.audio_data[music_id].task] = "running"

\* the entry once the task's result is stored in it
StoreData(entry, audio) == With(Without(entry, "task"), "data", audio)

\* get, when it does not have to wait: [mc, ret, raised], ret the audio or
\* None; task.result() raises what _load_music raised, the entry left as it is
MC_get(mc, music_id) ==
  IF music_id \notin DOMAIN mc.audio_data
    THEN [mc |-> mc, ret |-> None, raised |-> FALSE]
    ELSE IF "task" \in DOMAIN mc.audio_data[music_id]
      THEN IF mc.tasks[mc.audio_data[music_id].task] = "failed"
             THEN [mc |-> mc, ret |-> None, raised |-> TRUE]
             ELSE [mc |-> Collect([mc EXCEPT !.audio_data[music_id] = StoreData(@, music_id)],
                                  {}),
                   ret |-> Some(music_id), raised |-> FALSE]
      ELSE [mc |-> mc, ret |-> Some(mc.audio_data[music_id].data), raised |-> FALSE]

(***************************************************************************)
(* Session.  The operators take the session (and the cache) and return     *)
(* them changed.                                                           *)
(***************************************************************************)
\* the orders shuffle can produce
Shuffles == {p \in [1..NTracks -> Tracks] : \A i, j \in 1..NTracks : p[i] = p[j] => i = j}

\* _active_next_music that leaves the music it activates in the generator
ActiveNextMusicRepeats(self, mc) ==
  IF self.musics = <<>>
    THEN [self |-> self, mc |-> mc]
    ELSE [self |-> [self EXCEPT !.active_musics = Append(@, Head(self.musics))],
          mc |-> MC_load(mc, Head(self.musics))]

ActiveNextMusic(self, mc) ==
  IF self.musics = <<>>
    THEN [self |-> self, mc |-> mc]
    ELSE LET music == Head(self.musics)
         IN  [self |-> [self EXCEPT !.musics = Tail(@),
                                    !.active_musics = Append(@, music)],
              mc |-> MC_load(mc, music)]

\* the start time __init__ gives the first music
InitialStartTime == Some(0)

\* Session.__init__ with `indices` the shuffled order
SessionInit(indices, mc) ==
  LET s0 == [musics |-> indices, guessed |-> 0, succeed |-> 0, finalized |-> FALSE,
             start_time |-> InitialStartTime, active_musics |-> <<>>]
      r1 == ActiveNextMusic(s0, mc)
      r2 == ActiveNextMusic(r1.self, r1.mc)
  IN  ActiveNextMusic(r2.self, r2.mc)

CurrentMusic(self) ==
  IF Len(self.active_musics) = 0 THEN None ELSE Some(self.active_musics[1])

\* guess that credits every match, finalized or not
GuessAlwaysCounts(self, music_id) ==
  IF Len(self.active_musics) = 0
    THEN [self |-> self, ret |-> FALSE]
    ELSE [self |-> [self EXCEPT !.succeed = IF self.active_musics[1] = music_id
                                              THEN @ + 1 ELSE @,
                                !.finalized = TRUE],
          ret |-> self.active_musics[1] = music_id]

\* guess that answers False once the music is finalized
GuessFinalizedFalse(self, music_id) ==
  IF Len(self.active_musics) = 0
    THEN [self |-> self, ret |-> FALSE]
    ELSE IF self.finalized
      THEN [self |-> self, ret |-> FALSE]
      ELSE [self |-> [self EXCEPT !.succeed = IF self.active_musics[1] = music_id
                                                THEN @ + 1 ELSE @,
                                  !.finalized = TRUE],
            ret |-> self.active_musics[1] = music_id]

Guess(self, music_id) ==
  IF CurrentMusic(self) = None
    THEN [self |-> self, ret |-> FALSE]
    ELSE LET result == (self.active_musics[1] = music_id)
         IN  [self |-> IF ~self.finalized
                         THEN [self EXCEPT !.succeed = IF result THEN @ + 1 ELSE @,
                                           !.finalized = TRUE]
                         ELSE self,
              ret |-> result]

\* step that does not unload the music it leaves
StepWithoutUnload(self, mc) ==
  IF Len(self.active_musics) = 0
    THEN [self |-> self, mc |-> mc]
    ELSE LET r == ActiveNextMusic([self EXCEPT !.active_musics = Tail(@)], mc)
         IN  [self |-> [r.self EXCEPT !.start_time = None,
                                      !.guessed = @ + 1,
                                      !.finalized = FALSE],
              mc |-> r.mc]

\* step that does not pop the music it leaves
StepKeepsCurrent(self, mc) ==
  IF Len(self.active_musics) = 0
    THEN [self |-> self, mc |-> mc]
    ELSE LET r == ActiveNextMusic(self, MC_unload(mc, self.active_musics[1]))
         IN  [self |-> [r.self EXCEPT !.start_time = None,
                                      !.guessed = @ + 1,
                                      !.finalized = FALSE],
              mc |-> r.mc]

\* step without the early return on an empty window
StepCountsWhenEmpty(self, mc) ==
  LET counted(o) == [o EXCEPT !.start_time = None, !.guessed = @ + 1, !.finalized = FALSE]
  IN  IF Len(self.active_musics) = 0
        THEN [self |-> counted(self), mc |-> mc]
        ELSE LET r == ActiveNextMusic([self EXCEPT !.active_musics = Tail(@)],
                                      MC_unload(mc, self.active_musics[1]))
             IN  [self |-> counted(r.self), mc |-> r.mc]

\* step that does not reset the finalized flag
StepKeepsFinalized(self, mc) ==
  IF Len(self.active_musics) = 0
    THEN [self |-> self, mc |-> mc]
    ELSE LET r == ActiveNextMusic([self EXCEPT !.active_musics = Tail(@)],
                                  MC_unload(mc, self.active_musics[1]))
         IN  [self |-> [r.self EXCEPT !.start_time = None, !.guessed = @ + 1],
              mc |-> r.mc]

Step(self, mc) ==
  IF CurrentMusic(self) = None
    THEN [self |-> self, mc |-> mc]
    ELSE LET mc1 == MC_unload(mc, self.active_musics[1])
             r == ActiveNextMusic([self EXCEPT !.active_musics = Tail(@)], mc1)
         IN  [self |-> [r.self EXCEPT !.start_time = None,
                                      !.guessed = @ + 1,
                                      !.finalized = FALSE],
              mc |-> r.mc]

RECURSIVE UnloadAll(_, _)
UnloadAll(ms, mc) ==
  IF ms = <<>> THEN mc ELSE UnloadAll(Tail(ms), MC_unload(mc, Head(ms)))

\* logout that does not unload the current music
SessionLogoutKeepsCurrent(self, mc) ==
  IF self.active_musics = <<>> THEN mc ELSE UnloadAll(Tail(self.active_musics), mc)

SessionLogout(self, mc) == UnloadAll(self.active_musics, mc)

\* a reveal that does not finalize
FinalizeNothing(self) == self

Finalize(self) == IF ~self.finalized THEN [self EXCEPT !.finalized = TRUE] ELSE self

Answer(self) ==
  IF CurrentMusic(self) = None
    THEN [self |-> self, ret |-> None]
    ELSE [self |-> Finalize(self), ret |-> Some(self.active_musics[1])]

\* the bounds of the random start of a clip in an audio of length total
SliceLow(total) == (total * skip_start_num) \div skip_den
SliceHigh(total) ==
  LET a == (total * (skip_den - skip_end_num)) \div skip_den
      b == total - play_time
  IN  IF a < b THEN a ELSE b

\* audio[from : to] of Python, both ends clamped into the audio
Slice(audio, from, to) ==
  LET total == AudioLength(audio)
      clamp(i) == IF i < 0 THEN (IF total + i < 0 THEN 0 ELSE total + i)
                  ELSE IF i > total THEN total ELSE i
  IN  <<audio, clamp(from), IF clamp(to) < clamp(from) THEN clamp(from) ELSE clamp(to)>>

Finished(self) == self.guessed = NTracks

Summarize(self) ==
  [total |-> NTracks,
   current_index |-> self.guessed + 1,
   guessed |-> self.guessed + (IF self.finalized THEN 1 ELSE 0),
   correct |-> self.succeed]

\* Session.full_music: [self, mc, status, body]
FullMusic(self, mc) ==
  IF CurrentMusic(self) = None
    THEN [self |-> self, mc |-> mc, status |-> 404, body |-> <<>>]
    ELSE LET r == MC_get(mc, self.active_musics[1])
         IN  IF r.raised \/ r.ret = None
               THEN [self |-> Finalize(self), mc |-> r.mc, status |-> 500, body |-> <<>>]
               ELSE [self |-> Finalize(self), mc |-> r.mc, status |-> 200,
                     body |-> Slice(r.ret[1], 0, AudioLength(r.ret[1]))]

\* the starts randint can return for an audio: none when the range is empty
RandomStarts(audio) == SliceLow(AudioLength(audio))..SliceHigh(AudioLength(audio))

\* sliced_music that takes a new start at every call
NextStartTimeRedraw(self, drawn) == Some(drawn)

\* the start time sliced_music goes on with, `drawn` being what randint returned
NextStartTime(self, drawn) == IF self.start_time = None THEN Some(drawn) ELSE self.start_time

\* Session.sliced_music, `drawn` being what randint returns if it is called
SlicedMusic(self, mc, drawn) ==
  IF CurrentMusic(self) = None
    THEN [self |-> self, mc |-> mc, status |-> 404, body |-> <<>>]
    ELSE LET r == MC_get(mc, self.active_musics[1])
         IN  IF r.raised \/ r.ret = None
               THEN [self |-> self, mc |-> r.mc, status |-> 500, body |-> <<>>]
             ELSE IF self.start_time = None /\ drawn \notin RandomStarts(r.ret[1])
               THEN [self |-> self, mc |-> r.mc, status |-> 500, body |-> <<>>]
             ELSE LET start == NextStartTime(self, drawn)
                  IN  [self |-> [self EXCEPT !.start_time = start], mc |-> r.mc,
                       status |-> 200,
                       body |-> Slice(r.ret[1], start[1], start[1] + play_time)]

\* what sliced_music may get from randint: a start of the range, or, the range
\* being empty or no draw being made, nothing (written 0)
Draws(self) ==
  IF CurrentMusic(self) = None \/ self.start_time # None
       \/ RandomStarts(self.active_musics[1]) = {}
    THEN {0}
    ELSE RandomStarts(self.active_musics[1])

(***************************************************************************)
(* The request handlers, one request per step (Spec).                      *)
(***************************************************************************)
\* the cookie "id" of a request: 0 when there is none
Cookies == 0..MaxTokens

Respond(op, cookie, arg, status, body) ==
  last' = [op |-> op, cookie |-> cookie, arg |-> arg, status |-> status, body |-> body]

SetCache(mc) ==
  /\ audio_data' = mc.audio_data
  /\ tasks' = mc.tasks
  /\ decodes' = mc.decodes

\* the notes on a music that has just become the current one
FreshNotes == [finalized_by |-> "nothing", clips |-> 0]

\* the notes after a request that left the session as `after`
Noted(cookie, after, by) ==
  IF CurrentMusic(sessions[cookie]) # None /\ ~sessions[cookie].finalized /\ after.finalized
    THEN [notes EXCEPT ![cookie].finalized_by = by]
    ELSE notes

\* a refusal that empties the registry
NoSessionForgets(op, cookie, arg) ==
  /\ Respond(op, cookie, arg, 403, <<>>)
  /\ sessions' = <<>>
  /\ UNCHANGED <<audio_data, tasks, decodes, issued, notes>>

NoSession(op, cookie, arg) ==
  /\ Respond(op, cookie, arg, 403, <<>>)
  /\ UNCHANGED <<audio_data, tasks, decodes, sessions, issued, notes>>

\* login, shuffle picking one of `orders` and uuid4 handing out at most
\* `max` tokens
LoginAs(cookie, orders, max) ==
  /\ IF cookie \in DOMAIN sessions
       THEN UNCHANGED <<audio_data, tasks, decodes, sessions, issued, notes>>
       ELSE /\ issued < max
            /\ notes' = With(notes, issued + 1, FreshNotes)
            /\ \E indices \in orders :
                 LET r == SessionInit(indices, Cache)
                 IN  /\ sessions' = With(sessions, issued + 1, r.self)
                     /\ SetCache(r.mc)
            /\ issued' = issued + 1
  /\ Respond("login", cookie, 0, 204, <<>>)
  /\ UNCHANGED <<loads, unloads, threads, game>>

Login(cookie) == LoginAs(cookie, Shuffles, MaxTokens)

Logout(cookie) ==
  /\ IF cookie \notin DOMAIN sessions
       THEN NoSession("logout", cookie, 0)
       ELSE /\ SetCache(SessionLogout(sessions[cookie], Cache))
            /\ sessions' = Without(sessions, cookie)
            /\ notes' = Without(notes, cookie)
            /\ Respond("logout", cookie, 0, 204, <<>>)
            /\ UNCHANGED issued
  /\ UNCHANGED <<loads, unloads, threads, game>>

GetFullMusic(cookie) ==
  /\ IF cookie \notin DOMAIN sessions
       THEN NoSession("music", cookie, 0)
       ELSE /\ CurrentMusic(sessions[cookie]) # None
               => ~GetBlocks(Cache, sessions[cookie].active_musics[1])
            /\ LET r == FullMusic(sessions[cookie], Cache)
               IN  /\ sessions' = [sessions EXCEPT ![cookie] = r.self]
                   /\ SetCache(r.mc)
                   /\ Respond("music", cookie, 0, r.status, r.body)
                   /\ notes' = Noted(cookie, r.self, "reveal")
            /\ UNCHANGED issued
  /\ UNCHANGED <<loads, unloads, threads, game>>

GetSlicedMusic(cookie) ==
  /\ IF cookie \notin DOMAIN sessions
       THEN NoSession("test-music", cookie, 0)
       ELSE /\ CurrentMusic(sessions[cookie]) # None
               => ~GetBlocks(Cache, sessions[cookie].active_musics[1])
            /\ \E drawn \in Draws(sessions[cookie]) :
                 LET r == SlicedMusic(sessions[cookie], Cache, drawn)
                 IN  /\ sessions' = [sessions EXCEPT ![cookie] = r.self]
                     /\ SetCache(r.mc)
                     /\ Respond("test-music", cookie, 0, r.status, r.body)
                     /\ notes' = IF r.status = 200 /\ notes[cookie].clips < 2
                                   THEN [notes EXCEPT ![cookie].clips = @ + 1]
                                   ELSE notes
            /\ UNCHANGED issued
  /\ UNCHANGED <<loads, unloads, threads, game>>

GetAnswer(cookie) ==
  /\ IF cookie \notin DOMAIN sessions
       THEN NoSession("answer", cookie, 0)
       ELSE LET r == Answer(sessions[cookie])
            IN  /\ sessions' = [sessions EXCEPT ![cookie] = r.self]
                /\ Respond("answer", cookie, 0,
                           IF r.ret = None THEN 404 ELSE 200, r.ret)
                /\ notes' = Noted(cookie, r.self, "reveal")
                /\ UNCHANGED <<audio_data, tasks, decodes, issued>>
  /\ UNCHANGED <<loads, unloads, threads, game>>

\* the body of the response to a guess: {"result": result}
GuessBody(result) == <<"result", result>>

HandleGuess(cookie, guess_id) ==
  /\ IF cookie \notin DOMAIN sessions
       THEN NoSession("guess", cookie, guess_id)
       ELSE LET r == Guess(sessions[cookie], guess_id)
            IN  /\ sessions' = [sessions EXCEPT ![cookie] = r.self]
                /\ Respond("guess", cookie, guess_id, 200, GuessBody(r.ret))
                /\ notes' = Noted(cookie, r.self, "guess")
                /\ UNCHANGED <<audio_data, tasks, decodes, issued>>
  /\ UNCHANGED <<loads, unloads, threads, game>>

SummaryBody(self) ==
  LET s == Summarize(self) IN <<s.total, s.current_index, s.guessed, s.correct>>

MoveForward(cookie) ==
  /\ IF cookie \notin DOMAIN sessions
       THEN NoSession("next", cookie, 0)
       ELSE LET r == Step(sessions[cookie], Cache)
            IN  /\ sessions' = [sessions EXCEPT ![cookie] = r.self]
                /\ SetCache(r.mc)
                /\ IF Finished(r.self)
                     THEN Respond("next", cookie, 0, 200, SummaryBody(r.self))
                     ELSE Respond("next", cookie, 0, 204, <<>>)
                /\ notes' = IF CurrentMusic(sessions[cookie]) # None
                              THEN [notes EXCEPT ![cookie] = FreshNotes]
                              ELSE notes
                /\ UNCHANGED issued
  /\ UNCHANGED <<loads, unloads, threads, game>>

GetSummarize(cookie) ==
  /\ IF cookie \notin DOMAIN sessions
       THEN NoSession("summarize", cookie, 0)
       ELSE /\ Respond("summarize", cookie, 0, 200, SummaryBody(sessions[cookie]))
            /\ UNCHANGED <<audio_data, tasks, decodes, sessions, issued, notes>>
  /\ UNCHANGED <<loads, unloads, threads, game>>

\* a _load_music task of the executor returns
DecodeFinish(f) ==
  /\ f \in DOMAIN tasks
  /\ tasks[f] = "running"
  /\ tasks' = [tasks EXCEPT ![f] = "done"]
  /\ UNCHANGED <<audio_data, decodes, sessions, issued, last, notes, loads, unloads, threads, game>>

\* a _load_music task of the executor raises (the file cannot be decoded)
DecodeFail(f) ==
  /\ f \in DOMAIN tasks
  /\ tasks[f] = "running"
  /\ tasks' = [tasks EXCEPT ![f] = "failed"]
  /\ UNCHANGED <<audio_data, decodes, sessions, issued, last, notes, loads, unloads, threads, game>>

\* the futures the model can name
Futures == Tracks \X (1..(NThreads + 1))

Threads == 1..NThreads

\* a thread that serves no request; `op` and `status` are the request it
\* served last and the response, `phase` where its client stands
IdleThread ==
  [pc |-> "idle", op |-> "none", status |-> 0, phase |-> "new",
   self |-> None, music |-> 0, task |-> None, i |-> 0, nexts |-> 0]

\* main.py before a game is started: the start page is on the window
StartPage ==
  [form |-> "start", musics |-> <<>>, current_index |-> 0, correct |-> 0,
   finalized |-> FALSE, answer |-> 0, shown |-> FALSE, playing |-> FALSE, audio_data |-> 0,
   op |-> "none"]

NoRequest == [op |-> "none", cookie |-> 0, arg |-> 0, status |-> 0, body |-> <<>>]

Init ==
  /\ audio_data = <<>>
  /\ tasks = <<>>
  /\ decodes = [m \in Tracks |-> 0]
  /\ sessions = <<>>
  /\ issued = 0
  /\ last = NoRequest
  /\ notes = <<>>
  /\ loads = [m \in Tracks |-> 0]
  /\ unloads = [m \in Tracks |-> 0]
  /\ threads = [t \in Threads |-> IdleThread]
  /\ game = StartPage

Next ==
  \/ \E cookie \in Cookies : Login(cookie)
  \/ \E cookie \in Cookies : Logout(cookie)
  \/ \E cookie \in Cookies : GetFullMusic(cookie)
  \/ \E cookie \in Cookies : GetSlicedMusic(cookie)
  \/ \E cookie \in Cookies : GetAnswer(cookie)
  \/ \E cookie \in Cookies, guess_id \in Tracks : HandleGuess(cookie, guess_id)
  \/ \E cookie \in Cookies : MoveForward(cookie)
  \/ \E cookie \in Cookies : GetSummarize(cookie)
  \/ \E f \in Futures : DecodeFinish(f)

Spec == Init /\ [][Next]_vars

(***************************************************************************)
(* SpecCache: calls of load, unload and get on the cache, one at a time,   *)
(* every unload matched by an earlier load.                                *)
(***************************************************************************)
RECURSIVE Sum(_, _)
Sum(f, S) == IF S = {} THEN 0 ELSE LET x == CHOOSE y \in S : TRUE IN f[x] + Sum(f, S \ {x})

CacheLoad(music) ==
  /\ Sum(loads, Tracks) < MaxLoads
  /\ SetCache(MC_load(Cache, music))
  /\ loads' = [loads EXCEPT ![music] = @ + 1]
  /\ UNCHANGED <<sessions, issued, last, notes, unloads, threads, game>>

CacheUnload(music_id) ==
  /\ unloads[music_id] < loads[music_id]
  /\ SetCache(MC_unload(Cache, music_id))
  /\ unloads' = [unloads EXCEPT ![music_id] = @ + 1]
  /\ UNCHANGED <<sessions, issued, last, notes, loads, threads, game>>

CacheGet(music_id) ==
  /\ ~GetBlocks(Cache, music_id)
  /\ SetCache(MC_get(Cache, music_id).mc)
  /\ UNCHANGED <<sessions, issued, last, notes, loads, unloads, threads, game>>

NextCache ==
  \/ \E music \in Tracks : CacheLoad(music)
  \/ \E music_id \in Tracks : CacheUnload(music_id)
  \/ \E music_id \in Tracks : CacheGet(music_id)
  \/ \E f \in Futures : DecodeFinish(f)

SpecCache == Init /\ [][NextCache]_vars

(***************************************************************************)
(* SpecConc: every client is served by a thread of its own, one request    *)
(* at a time: login, then /music and /next requests, then logout.  The     *)
(* threads interleave at the statements of MusicCache: the membership test *)
(* of load and of unload, the change of the entry that follows it, and in  *)
(* get the test, the wait for the task and the storing of its result.      *)
(* Each of these steps is atomic here, so every run of SpecConc is a run   *)
(* of the server.  The token of client t is written t.                     *)
(***************************************************************************)
\* the orders of shuffle explored in SpecConc: the rotations of the catalog
Rotations == {p \in Shuffles : \A i \in 1..(NTracks - 1) : p[i + 1] = (p[i] % NTracks) + 1}

\* the session a thread works on: the one it constructs, or its client's
Obj(t) == IF threads[t].op = "login" THEN threads[t].self ELSE sessions[t]

\* the handler ends with an uncaught exception
Raise(th) ==
  [th EXCEPT !.pc = "idle", !.status = 500, !.task = None,
             !.phase = IF th.op = "login" THEN "failed" ELSE @]

RECURSIVE ActiveNextFrom(_, _)
RECURSIVE AfterActiveNext(_, _)

\* the thread about to call _active_next_music, up to the call of load
ActiveNextFrom(th, obj) ==
  IF obj.musics # <<>>
    THEN [th |-> [th EXCEPT !.pc = "load_check", !.music = Head(obj.musics)],
          obj |-> [obj EXCEPT !.musics = Tail(@)]]
    ELSE AfterActiveNext(th, obj)

\* _active_next_music has returned: the rest of __init__ and login, or of step
\* and move_forward
AfterActiveNext(th, obj) ==
  IF th.op = "login"
    THEN IF th.i + 1 < 3
           THEN ActiveNextFrom([th EXCEPT !.i = @ + 1], obj)
           ELSE [th |-> [th EXCEPT !.pc = "idle", !.status = 204, !.phase = "in", !.i = 0],
                 obj |-> obj]
    ELSE LET o == [obj EXCEPT !.start_time = None, !.guessed = @ + 1, !.finalized = FALSE]
         IN  [th |-> [th EXCEPT !.pc = "idle",
                                !.status = IF Finished(o) THEN 200 ELSE 204],
              obj |-> o]

\* load has returned
AfterLoad(th, obj) ==
  AfterActiveNext(th, [obj EXCEPT !.active_musics = Append(@, th.music)])

\* unload has returned: the rest of step, or of the loop of logout
AfterUnload(th, obj) ==
  IF th.op = "next"
    THEN ActiveNextFrom(th, [obj EXCEPT !.active_musics = Tail(@)])
    ELSE IF th.i < Len(obj.active_musics)
      THEN [th |-> [th EXCEPT !.pc = "unload_check", !.i = @ + 1,
                              !.music = obj.active_musics[th.i + 1]],
            obj |-> obj]
      ELSE [th |-> [th EXCEPT !.pc = "idle", !.status = 204, !.phase = "out", !.i = 0],
            obj |-> obj]

\* the futures the threads hold, thread t being in th
Held(t, th) == {(IF u = t THEN th ELSE threads[u]).task : u \in Threads} \ {None}

\* the step of thread t ends in r = [th, obj] with the cache mc
Commit(t, r, mc) ==
  LET done == r.th.pc = "idle" /\ r.th.status = 204
  IN  /\ threads' = [threads EXCEPT ![t] =
                       [r.th EXCEPT !.self = IF r.th.op = "login" /\ r.th.pc # "idle"
                                               THEN r.obj ELSE None,
                                    !.music = IF r.th.pc = "idle" THEN 0 ELSE @,
                                    !.i = IF r.th.pc = "idle" THEN 0 ELSE @]]
      /\ sessions' = IF r.th.op = "login"
                       THEN (IF done THEN With(sessions, t, r.obj) ELSE sessions)
                       ELSE IF r.th.op = "logout" /\ done
                         THEN Without(sessions, t)
                         ELSE [sessions EXCEPT ![t] = r.obj]
      /\ issued' = IF r.th.op = "login" /\ done THEN issued + 1 ELSE issued
      /\ SetCache(Collect(mc, Held(t, r.th)))
      /\ UNCHANGED <<last, notes, loads, unloads, game>>

Idle(t) == threads[t].pc = "idle"

StartLogin(t) ==
  /\ Idle(t) /\ threads[t].phase = "new"
  /\ \E indices \in Rotations :
       Commit(t, ActiveNextFrom([threads[t] EXCEPT !.op = "login", !.status = 0, !.i = 0],
                                [musics |-> indices, guessed |-> 0, succeed |-> 0,
                                 finalized |-> FALSE, start_time |-> InitialStartTime,
                                 active_musics |-> <<>>]),
              Cache)

StartNext(t) ==
  /\ Idle(t) /\ threads[t].phase = "in"
  /\ threads[t].nexts < MaxNext
  /\ LET th == [threads[t] EXCEPT !.op = "next", !.status = 0, !.nexts = @ + 1]
         obj == sessions[t]
     IN  IF CurrentMusic(obj) = None
           THEN Commit(t, [th |-> [th EXCEPT !.status = IF Finished(obj) THEN 200 ELSE 204],
                           obj |-> obj], Cache)
           ELSE Commit(t, [th |-> [th EXCEPT !.pc = "unload_check",
                                             !.music = obj.active_musics[1]],
                           obj |-> obj], Cache)

StartLogout(t) ==
  /\ Idle(t) /\ threads[t].phase = "in"
  /\ Commit(t, AfterUnload([threads[t] EXCEPT !.op = "logout", !.status = 0, !.i = 0],
                           sessions[t]),
            Cache)

StartMusic(t) ==
  /\ Idle(t) /\ threads[t].phase = "in"
  /\ LET th == [threads[t] EXCEPT !.op = "music", !.status = 0]
         obj == sessions[t]
     IN  IF CurrentMusic(obj) = None
           THEN Commit(t, [th |-> [th EXCEPT !.status = 404], obj |-> obj], Cache)
           ELSE Commit(t, [th |-> [th EXCEPT !.pc = "get_check",
                                             !.music = obj.active_musics[1]],
                           obj |-> Finalize(obj)], Cache)

\* load: if music["id"] in self._audio_data
LoadCheck(t) ==
  /\ threads[t].pc = "load_check"
  /\ Commit(t, [th |-> [threads[t] EXCEPT !.pc = IF threads[t].music \in DOMAIN audio_data
                                                   THEN "load_inc" ELSE "load_new"],
                obj |-> Obj(t)], Cache)

\* load: self._increase_reference(music["id"]); return
LoadInc(t) ==
  /\ threads[t].pc = "load_inc"
  /\ IF threads[t].music \notin DOMAIN audio_data
       THEN Commit(t, [th |-> Raise(threads[t]), obj |-> Obj(t)], Cache)
       ELSE Commit(t, AfterLoad(threads[t], Obj(t)),
                   IncreaseReference(Cache, threads[t].music))

\* load: self._audio_data[music["id"]] = {"references": 1, "task": submit(...)}
LoadNew(t) ==
  /\ threads[t].pc = "load_new"
  /\ Commit(t, AfterLoad(threads[t], Obj(t)),
            CreateEntry(Cache, threads[t].music, Held(t, threads[t])))

\* unload: if music_id not in self._audio_data: return
UnloadCheck(t) ==
  /\ threads[t].pc = "unload_check"
  /\ IF threads[t].music \notin DOMAIN audio_data
       THEN Commit(t, AfterUnload(threads[t], Obj(t)), Cache)
       ELSE Commit(t, [th |-> [threads[t] EXCEPT !.pc = "unload_dec"], obj |-> Obj(t)],
                   Cache)

\* unload: self._decrease_reference(music_id)
UnloadDec(t) ==
  /\ threads[t].pc = "unload_dec"
  /\ IF threads[t].music \notin DOMAIN audio_data
       THEN Commit(t, [th |-> Raise(threads[t]), obj |-> Obj(t)], Cache)
       ELSE Commit(t, AfterUnload(threads[t], Obj(t)),
                   DecreaseReference(Cache, threads[t].music))

\* get: the tests of the entry, up to task.result() or the return
GetCheck(t) ==
  /\ threads[t].pc = "get_check"
  /\ LET th == threads[t]
     IN  IF th.music \notin DOMAIN audio_data
           THEN Commit(t, [th |-> Raise(th), obj |-> Obj(t)], Cache)
         ELSE IF "task" \in DOMAIN audio_data[th.music]
           THEN Commit(t, [th |-> [th EXCEPT !.pc = "get_wait",
                                             !.task = audio_data[th.music].task],
                           obj |-> Obj(t)], Cache)
         ELSE IF "data" \in DOMAIN audio_data[th.music]
           THEN Commit(t, [th |-> [th EXCEPT !.pc = "idle", !.status = 200],
                           obj |-> Obj(t)], Cache)
           ELSE Commit(t, [th |-> Raise(th), obj |-> Obj(t)], Cache)

\* get: audio = task.result()
GetWait(t) ==
  /\ threads[t].pc = "get_wait"
  /\ tasks[threads[t].task] = "done"
  /\ Commit(t, [th |-> [threads[t] EXCEPT !.pc = "get_store"], obj |-> Obj(t)], Cache)

\* get: del entry["task"]; entry["data"] = audio; return entry["data"]
GetStore(t) ==
  /\ threads[t].pc = "get_store"
  /\ LET th == threads[t]
     IN  IF th.music \notin DOMAIN audio_data
           THEN Commit(t, [th |-> Raise(th), obj |-> Obj(t)], Cache)
         ELSE IF "task" \notin DOMAIN audio_data[th.music]
           THEN Commit(t, [th |-> Raise(th), obj |-> Obj(t)], Cache)
           ELSE Commit(t, [th |-> [th EXCEPT !.pc = "idle", !.status = 200, !.task = None],
                           obj |-> Obj(t)],
                       [Cache EXCEPT !.audio_data[th.music] = StoreData(@, th.music)])

\* a _load_music task returns while the threads run.  Only a thread waiting
\* in get sees whether a task has returned, so the return is taken no earlier
\* than the first wait for it
DecodeFinishConc(f) ==
  /\ f \in DOMAIN tasks
  /\ tasks[f] = "running"
  /\ \E t \in Threads : threads[t].pc = "get_wait" /\ threads[t].task = f
  /\ tasks' = [tasks EXCEPT ![f] = "done"]
  /\ UNCHANGED <<audio_data, decodes, sessions, issued, last, notes, loads, unloads, threads, game>>

NextConc ==
  \/ \E t \in Threads : StartLogin(t)
  \/ \E t \in Threads : StartNext(t)
  \/ \E t \in Threads : StartLogout(t)
  \/ \E t \in Threads : StartMusic(t)
  \/ \E t \in Threads : LoadCheck(t)
  \/ \E t \in Threads : LoadInc(t)
  \/ \E t \in Threads : LoadNew(t)
  \/ \E t \in Threads : UnloadCheck(t)
  \/ \E t \in Threads : UnloadDec(t)
  \/ \E t \in Threads : GetCheck(t)
  \/ \E t \in Threads : GetWait(t)
  \/ \E t \in Threads : GetStore(t)
  \/ \E f \in Futures : DecodeFinishConc(f)

SpecConc == Init /\ [][NextConc]_vars

(***************************************************************************)
(* SpecLive: the clients of SpecConc logging in and requesting the full    *)
(* music, no entry being unloaded.  A thread that can take the next step   *)
(* of its request takes it in the end (the threads of the server are       *)
(* scheduled fairly), and the executor brings every task a get waits for   *)
(* to its end.                                                             *)
(***************************************************************************)
\* thread t takes a step of the request it serves
Runs(t) ==
  \/ LoadCheck(t) \/ LoadInc(t) \/ LoadNew(t)
  \/ GetCheck(t) \/ GetWait(t) \/ GetStore(t)

NextLive ==
  \/ \E t \in Threads : StartLogin(t)
  \/ \E t \in Threads : StartMusic(t)
  \/ \E t \in Threads : Runs(t)
  \/ \E f \in Futures : DecodeFinishConc(f)

SpecLive ==
  /\ Init
  /\ [][NextLive]_vars
  /\ \A t \in Threads : WF_vars(Runs(t))
  /\ \A f \in Futures : WF_vars(DecodeFinishConc(f))

(***************************************************************************)
(* SpecPair: the request handlers, one whole request per step, for up to   *)
(* MaxPair sessions.  The first session plays the catalog in its order,    *)
(* a later one any rotation of it.  The sessions are stepped, logged out   *)
(* and asked for the full music.  A decode task may return or raise.       *)
(***************************************************************************)
PairCookies == 0..MaxPair

\* the orders shuffle produces in SpecPair
PairOrders == IF issued = 0 THEN {[i \in 1..NTracks |-> i]} ELSE Rotations

LoginPair(cookie) == LoginAs(cookie, PairOrders, MaxPair)

NextPair ==
  \/ \E cookie \in PairCookies : LoginPair(cookie)
  \/ \E cookie \in PairCookies : Logout(cookie)
  \/ \E cookie \in PairCookies : GetFullMusic(cookie)
  \/ \E cookie \in PairCookies : MoveForward(cookie)
  \/ \E f \in Futures : DecodeFinish(f)
  \/ \E f \in Futures : DecodeFail(f)

SpecPair == Init /\ [][NextPair]_vars

(***************************************************************************)
(* SpecGate: the sessions of SpecPair logging in, stepping and logging     *)
(* out, among requests of clients that have no session: no cookie, a       *)
(* token never handed out, the token of a session that has logged out.     *)
(***************************************************************************)
\* the client that sends the cookie has no session
Stranger(cookie) == cookie \notin DOMAIN sessions

NextGate ==
  \/ \E cookie \in PairCookies : LoginPair(cookie)
  \/ \E cookie \in PairCookies : Logout(cookie)
  \/ \E cookie \in PairCookies : MoveForward(cookie)
  \/ \E cookie \in PairCookies : Stranger(cookie) /\ GetFullMusic(cookie)
  \/ \E cookie \in PairCookies : Stranger(cookie) /\ GetSlicedMusic(cookie)
  \/ \E cookie \in PairCookies : Stranger(cookie) /\ GetAnswer(cookie)
  \/ \E cookie \in PairCookies, guess_id \in Tracks :
       Stranger(cookie) /\ HandleGuess(cookie, guess_id)
  \/ \E cookie \in PairCookies : Stranger(cookie) /\ GetSummarize(cookie)

SpecGate == Init /\ [][NextGate]_vars

(***************************************************************************)
(* The properties.                                                         *)
(***************************************************************************)
\* the musics of a sequence
Range(seq) == {seq[i] : i \in DOMAIN seq}

\* the sessions that hold music m in their active window
Holders(m) == {c \in DOMAIN sessions : m \in Range(sessions[c].active_musics)}

\* the step is a task of the executor returning, not a request
DecodeStep == DOMAIN tasks' = DOMAIN tasks /\ tasks' # tasks

\* the step serves the request `op` of the registered session `cookie`
Request(op, cookie) ==
  /\ ~DecodeStep
  /\ cookie \in DOMAIN sessions
  /\ last'.op = op
  /\ last'.cookie = cookie

\* the session is registered before and after the step
Stays(cookie) == cookie \in DOMAIN sessions /\ cookie \in DOMAIN sessions'

\* C1 (SpecCache): after every load / unload call the cache holds an entry
\* for a music exactly when more loads than unloads were made for it, the
\* entry's reference count is that difference, and no entry has the count 0.
C1_ReferenceCountExact ==
  \A m \in Tracks :
    /\ m \in DOMAIN audio_data <=> loads[m] > unloads[m]
    /\ m \in DOMAIN audio_data =>
         /\ audio_data[m].references = loads[m] - unloads[m]
         /\ audio_data[m].references # 0

\* a music loaded twice and unloaded once beside one loaded and unloaded
C1_Witness ==
  \E m, n \in Tracks :
    /\ loads[m] = 2 /\ unloads[m] = 1 /\ m \in DOMAIN audio_data
    /\ loads[n] = 1 /\ unloads[n] = 1 /\ n \notin DOMAIN audio_data

\* every client has logged in and made no /next request, no request running
AllLoggedIn ==
  \A t \in Threads :
    /\ Idle(t) /\ threads[t].phase = "in" /\ threads[t].nexts = 0
    /\ t \in DOMAIN sessions

\* C2 (SpecConc): when the sessions load the same music that has no entry
\* yet, however the membership tests and entry creations of their load
\* calls interleave, exactly one decode task is submitted for it and its
\* entry counts one reference per session.
C2_OneDecodePerMusic ==
  AllLoggedIn =>
    \A m \in Tracks :
      Holders(m) = Threads =>
        /\ decodes[m] = 1
        /\ m \in DOMAIN audio_data
        /\ audio_data[m].references = NThreads

\* C3 (SpecConc): whenever no request is running, every music in the active
\* window of a session has an entry whose reference count is the number of
\* sessions holding the music.
C3_WindowsAreCounted ==
  (\A t \in Threads : Idle(t)) =>
    \A m \in Tracks :
      Holders(m) # {} =>
        /\ m \in DOMAIN audio_data
        /\ audio_data[m].references = Cardinality(Holders(m))

\* no two load calls have created an entry for the same music
NoLoadRace == \A m \in Tracks : decodes[m] <= 1

\* C4 (SpecConc): the sessions being logged in and their loads not having
\* raced, a get (through /music) of a session for its current music returns
\* the audio, even when another session's get waits for the same task; the
\* entry is Ready afterwards, its reference count what it was.
C4_ConcurrentGetsReturn ==
  ((\A t \in Threads : Idle(t) /\ threads[t].phase = "in") /\ NoLoadRace) =>
    \A t \in Threads :
      (threads[t].op = "music" /\ CurrentMusic(sessions[t]) # None) =>
        LET m == sessions[t].active_musics[1]
        IN  /\ threads[t].status = 200
            /\ m \in DOMAIN audio_data
            /\ "data" \in DOMAIN audio_data[m]
            /\ audio_data[m].references = Cardinality(Holders(m))

\* C5 (Spec): a guess of the current music's id on an unresolved music
\* returns true, adds exactly 1 to the correct counter and finalizes; a
\* finalized music stays finalized until the next step, and no guess on it
\* changes the correct counter or the flag.
C5_GuessScoresOnce ==
  [][\A c \in DOMAIN sessions :
       Stays(c) =>
         LET s == sessions[c]
             s2 == sessions'[c]
         IN  /\ (Request("guess", c) /\ CurrentMusic(s) # None /\ ~s.finalized
                   /\ last'.arg = s.active_musics[1]) =>
                  /\ last'.body = GuessBody(TRUE)
                  /\ s2.succeed = s.succeed + 1
                  /\ s2.finalized
             /\ (s.finalized /\ s2.guessed = s.guessed) => s2.finalized
             /\ (Request("guess", c) /\ s.finalized) =>
                  /\ s2.succeed = s.succeed
                  /\ s2.finalized
    ]_vars

\* a wrong guess on the first music after the right guess that finalized it
C5_Witness ==
  \E c \in DOMAIN sessions :
    /\ last.op = "guess" /\ last.cookie = c /\ last.body = GuessBody(FALSE)
    /\ notes[c].finalized_by = "guess"
    /\ sessions[c].guessed = 0
    /\ sessions[c].succeed = 1
    /\ sessions[c].finalized

\* C6 (Spec): answer or full_music on an unresolved music finalizes it and
\* leaves the correct counter unchanged; while the music finalized that way
\* is the current one, no request, a guess of the right id included, changes
\* the correct counter.
C6_RevealForfeits ==
  [][\A c \in DOMAIN sessions :
       Stays(c) =>
         LET s == sessions[c]
             s2 == sessions'[c]
         IN  /\ ((Request("answer", c) \/ Request("music", c))
                   /\ CurrentMusic(s) # None /\ ~s.finalized) =>
                  /\ s2.finalized
                  /\ s2.succeed = s.succeed
                  /\ notes'[c].finalized_by = "reveal"
             /\ (notes[c].finalized_by = "reveal" /\ s2.guessed = s.guessed) =>
                  /\ s2.finalized
                  /\ s2.succeed = s.succeed
    ]_vars

\* a guess of the right id after the answer was requested: true, no credit
C6_Witness ==
  \E c \in DOMAIN sessions :
    /\ last.op = "guess" /\ last.cookie = c /\ last.body = GuessBody(TRUE)
    /\ notes[c].finalized_by = "reveal"
    /\ sessions[c].finalized
    /\ sessions[c].succeed = 0

\* C7 (Spec): a step on the last music of the order empties the window and
\* makes the session finished, and summarize then reports current_index
\* equal to total.
C7_LastStepFinishes ==
  [][\A c \in DOMAIN sessions :
       (Stays(c) /\ Request("next", c) /\ Len(sessions[c].active_musics) = 1
          /\ sessions[c].musics = <<>>) =>
         /\ sessions'[c].active_musics = <<>>
         /\ Finished(sessions'[c])
         /\ Summarize(sessions'[c]).current_index = Summarize(sessions'[c]).total
    ]_vars

\* C8 (Spec): until the first clip of the current music is served the slice
\* start is None, for the first music of a session too, and the start the
\* first clip uses lies between SliceLow and SliceHigh of the music.
C8_StartUnsetThenInRange ==
  [][\A c \in DOMAIN sessions' :
       /\ notes'[c].clips = 0 => sessions'[c].start_time = None
       /\ (Stays(c) /\ Request("test-music", c) /\ last'.status = 200
             /\ notes[c].clips = 0) =>
            last'.body[2] \in RandomStarts(sessions[c].active_musics[1])
    ]_vars

\* C9 (Spec): once a clip of the current music was served, the slice start
\* stays what it is until the next step, whatever requests come in between,
\* and every clip served is the slice of the music at that start.
C9_SliceStartStable ==
  [][\A c \in DOMAIN sessions :
       Stays(c) =>
         LET s == sessions[c]
             s2 == sessions'[c]
         IN  /\ (s.start_time # None /\ s2.guessed = s.guessed) =>
                  s2.start_time = s.start_time
             /\ (Request("test-music", c) /\ last'.status = 200) =>
                  /\ s2.start_time # None
                  /\ last'.body = Slice(s.active_musics[1], s2.start_time[1],
                                        s2.start_time[1] + play_time)
                  /\ (notes[c].clips > 0 /\ last.op = "test-music" /\ last.status = 200
                        /\ last.cookie = c) => last'.body = last.body
    ]_vars

\* a second clip of a music whose start was drawn, the music being finalized
\* by a guess
C9_Witness ==
  \E c \in DOMAIN sessions :
    /\ last.op = "test-music" /\ last.cookie = c /\ last.status = 200
    /\ notes[c].clips = 2
    /\ notes[c].finalized_by = "guess"
    /\ sessions[c].guessed = 1
    /\ sessions[c].start_time # None
    /\ sessions[c].start_time[1] > 0

\* C10 (Spec): a session created while the cache is empty holds the first 3
\* musics of its order, the cache then has exactly these entries, each with
\* reference count 1; the first step of the session, it being the only one,
\* removes the entry of the first music, adds an entry with count 1 for the
\* fourth music of the order, leaves the two other entries as they are and
\* sets the guessed counter to 1.
C10_WindowOfThree ==
  [][\A c \in DOMAIN sessions' :
       /\ (c \notin DOMAIN sessions /\ DOMAIN sessions' = {c} /\ DOMAIN audio_data = {}
             /\ NTracks >= 4) =>
            LET s2 == sessions'[c]
            IN  /\ Len(s2.active_musics) = 3
                /\ s2.active_musics \o s2.musics \in Shuffles
                /\ DOMAIN audio_data' = Range(s2.active_musics)
                /\ \A m \in DOMAIN audio_data' : audio_data'[m].references = 1
       /\ (DOMAIN sessions = {c} /\ Stays(c) /\ Request("next", c)
             /\ sessions[c].guessed = 0 /\ NTracks >= 4) =>
            LET s == sessions[c]
                first == s.active_musics[1]
                fourth == Head(s.musics)
            IN  /\ DOMAIN audio_data = Range(s.active_musics)
                /\ DOMAIN audio_data' = (DOMAIN audio_data \ {first}) \cup {fourth}
                /\ fourth \notin DOMAIN audio_data
                /\ audio_data'[fourth].references = 1
                /\ \A m \in DOMAIN audio_data \ {first} : audio_data'[m] = audio_data[m]
                /\ sessions'[c].guessed = 1
                /\ sessions'[c].active_musics = Tail(s.active_musics) \o <<fourth>>
    ]_vars

\* the only session after its first step
C10_Witness ==
  \E c \in DOMAIN sessions :
    /\ DOMAIN sessions = {c}
    /\ last.op = "next" /\ last.cookie = c
    /\ sessions[c].guessed = 1
    /\ Cardinality(DOMAIN audio_data) = 3
    /\ \A m \in DOMAIN audio_data : audio_data[m].references = 1

\* C11 (SpecPair): a logout of a session, wherever it stands, removes the
\* session from the registry and releases one reference for each music of
\* its window: the entry of a music no other session holds is gone, the
\* entry of a music another session holds counts one reference less and is
\* otherwise as it was; the entries of the other musics are unchanged.
C11_LogoutReleasesWindow ==
  [][\A c \in DOMAIN sessions :
       Request("logout", c) =>
         /\ c \notin DOMAIN sessions'
         /\ \A m \in Tracks :
              IF m \in Range(sessions[c].active_musics)
                THEN IF Holders(m) = {c}
                       THEN m \notin DOMAIN audio_data'
                       ELSE /\ m \in DOMAIN audio_data /\ m \in DOMAIN audio_data'
                            /\ audio_data'[m] =
                                 [audio_data[m] EXCEPT !.references = @ - 1]
                ELSE /\ m \in DOMAIN audio_data <=> m \in DOMAIN audio_data'
                     /\ m \in DOMAIN audio_data => audio_data'[m] = audio_data[m]
    ]_vars

\* the first session has logged out while the second, after a step and a
\* full music, holds a window that has a music of the first one's in it
C11_Witness ==
  /\ last.op = "logout" /\ last.cookie = 1 /\ last.status = 204
  /\ DOMAIN sessions = {2}
  /\ sessions[2].guessed = 1
  /\ Cardinality(DOMAIN audio_data) = 3
  /\ \A m \in DOMAIN audio_data : audio_data[m].references = 1
  /\ \E m \in DOMAIN audio_data : "data" \in DOMAIN audio_data[m]

\* the musics the session has still to present, the current one first
Remaining(self) == self.active_musics \o self.musics

\* C12 (Spec): the musics a new session has to present are a permutation of
\* the catalog; a step drops the current music from them and adds 1 to the
\* guessed counter, no other request changes them or the counter; so the
\* current music after k steps is the k+1st of the order the session was
\* created with, every music is the current one once and none twice.
C12_OrderFixedForward ==
  [][\A c \in DOMAIN sessions' :
       LET s2 == sessions'[c]
       IN  IF c \notin DOMAIN sessions
             THEN /\ Remaining(s2) \in Shuffles
                  /\ s2.guessed = 0
             ELSE LET s == sessions[c]
                  IN  /\ Len(Remaining(s)) = NTracks - s.guessed
                      /\ \A i, j \in 1..Len(Remaining(s)) :
                           Remaining(s)[i] = Remaining(s)[j] => i = j
                      /\ s2.guessed >= s.guessed
                      /\ IF Request("next", c) /\ Remaining(s) # <<>>
                            THEN /\ Remaining(s2) = Tail(Remaining(s))
                                 /\ s2.guessed = s.guessed + 1
                            ELSE /\ Remaining(s2) = Remaining(s)
                                 /\ s2.guessed = s.guessed
    ]_vars

\* a session that has stepped over every music of its order
C12_Witness ==
  \E c \in DOMAIN sessions :
    /\ last.op = "next" /\ last.cookie = c /\ last.status = 200
    /\ sessions[c].guessed = NTracks
    /\ Remaining(sessions[c]) = <<>>
    /\ sessions[c].succeed = 1

\* C13 (Spec): whatever the length of the current music, shorter than a clip
\* included, a request for a clip of a music whose start is not set succeeds
\* and sets a start drawn from SliceLow up to the larger of SliceLow and
\* SliceHigh; it does not fail on an empty range.
C13_SliceRangeNeverEmpty ==
  [][\A c \in DOMAIN sessions :
       (Stays(c) /\ Request("test-music", c) /\ CurrentMusic(sessions[c]) # None
          /\ sessions[c].start_time = None) =>
         LET total == AudioLength(sessions[c].active_musics[1])
             lower == SliceLow(total)
             upper == IF SliceHigh(total) < lower THEN lower ELSE SliceHigh(total)
         IN  /\ last'.status = 200
             /\ sessions'[c].start_time # None
             /\ sessions'[c].start_time[1] \in lower..upper
    ]_vars

\* C14 (Spec): the /next request that makes a session finished removes the
\* session from the registry, as a logout does.
C14_FinishedSessionDestroyed ==
  [][\A c \in DOMAIN sessions :
       (Request("next", c) /\ ~Finished(sessions[c])
          /\ Finished(Step(sessions[c], Cache).self)) =>
         c \notin DOMAIN sessions'
    ]_vars

\* the requests that need a session
ScopedOps == {"logout", "music", "test-music", "answer", "guess", "next", "summarize"}

\* C15 (SpecGate): a request that needs a session and comes with no token or
\* with a token the registry does not hold, that of a logged out session
\* included, is answered 403 and leaves the registry, the sessions, the cache
\* entries with their reference counts and the tasks as they were.
C15_NoSessionRefused ==
  [][(~DecodeStep /\ last'.op \in ScopedOps /\ last'.cookie \notin DOMAIN sessions) =>
       /\ last'.status = 403
       /\ UNCHANGED <<audio_data, tasks, decodes, sessions, issued>>
    ]_vars

\* a /next with the token of the first session, logged out, is refused while
\* the second session holds its window
C15_Witness ==
  /\ last.op = "next" /\ last.cookie = 1 /\ last.status = 403
  /\ issued = 2
  /\ DOMAIN sessions = {2}
  /\ Cardinality(DOMAIN audio_data) = 3

\* the entry of music m waits on a task that has raised
FailedPending(ad, ts, m) ==
  /\ m \in DOMAIN ad
  /\ "task" \in DOMAIN ad[m]
  /\ ts[ad[m].task] = "failed"

\* C16 (SpecPair): a /music request whose get finds the decode of the current
\* music failed is answered with a failure, the entry of the music is then no
\* longer one that waits on the failed task, and the entries of the other
\* musics and the other sessions are as they were.
C16_FailedDecodeReleased ==
  [][\A c \in DOMAIN sessions :
       (Stays(c) /\ Request("music", c) /\ CurrentMusic(sessions[c]) # None
          /\ FailedPending(audio_data, tasks, sessions[c].active_musics[1])) =>
         LET m == sessions[c].active_musics[1]
         IN  /\ last'.status = 500
             /\ ~FailedPending(audio_data', tasks', m)
             /\ \A n \in Tracks \ {m} :
                  /\ n \in DOMAIN audio_data <=> n \in DOMAIN audio_data'
                  /\ n \in DOMAIN audio_data => audio_data'[n] = audio_data[n]
             /\ \A d \in DOMAIN sessions \ {c} :
                  d \in DOMAIN sessions' /\ sessions'[d] = sessions[d]
    ]_vars

\* C17 (Spec), as claimed: a guess on a finalized music changes nothing and
\* returns false, whatever the candidate.
C17_FinalizedGuessFalse ==
  [][\A c \in DOMAIN sessions :
       (Stays(c) /\ Request("guess", c) /\ CurrentMusic(sessions[c]) # None
          /\ sessions[c].finalized) =>
         /\ sessions'[c] = sessions[c]
         /\ last'.body = GuessBody(FALSE)
    ]_vars

\* C17 (Spec), amended: a guess on a finalized music changes nothing of the
\* session or the cache and returns whether the candidate is the id of the
\* current music.
C17_FinalizedGuessReadOnly ==
  [][\A c \in DOMAIN sessions :
       (Stays(c) /\ Request("guess", c) /\ CurrentMusic(sessions[c]) # None
          /\ sessions[c].finalized) =>
         /\ sessions'[c] = sessions[c]
         /\ UNCHANGED <<audio_data, tasks, decodes>>
         /\ last'.body = GuessBody(last'.arg = sessions[c].active_musics[1])
    ]_vars

\* the right guess, answered true without credit, on a music that a wrong
\* guess has finalized
C17_Witness ==
  \E c \in DOMAIN sessions :
    /\ last.op = "guess" /\ last.cookie = c /\ last.body = GuessBody(TRUE)
    /\ last.arg = sessions[c].active_musics[1]
    /\ notes[c].finalized_by = "guess"
    /\ sessions[c].finalized
    /\ sessions[c].succeed = 0

\* C18 (Spec): once the window of a session is empty, no request changes the
\* session (its counters, its flag) while it is registered, and a request of
\* the session makes no change to the cache and submits no decode; a guess
\* is answered false, /answer, /music and /test-music are answered 404, and
\* a logout removes the session.
C18_EmptyWindowNoOps ==
  [][\A c \in DOMAIN sessions :
       CurrentMusic(sessions[c]) = None =>
         /\ Stays(c) => sessions'[c] = sessions[c]
         /\ (~DecodeStep /\ last'.cookie = c) =>
              /\ UNCHANGED <<audio_data, tasks, decodes>>
              /\ last'.op = "guess" => last'.body = GuessBody(FALSE)
              /\ last'.op \in {"answer", "music", "test-music"} =>
                   last'.status = 404 /\ last'.body = <<>>
              /\ last'.op = "logout" => c \notin DOMAIN sessions'
    ]_vars

\* a guess on a session that has stepped over its whole order
C18_Witness ==
  \E c \in DOMAIN sessions :
    /\ last.op = "guess" /\ last.cookie = c /\ last.body = GuessBody(FALSE)
    /\ sessions[c].active_musics = <<>>
    /\ sessions[c].guessed = NTracks
    /\ ~sessions[c].finalized
    /\ sessions[c].succeed = 2

\* thread t is inside get, at or after task.result()
InGet(t) == threads[t].pc \in {"get_wait", "get_store"}

\* the get of thread t has returned the audio of its current music, whose
\* entry is Ready
GotAudio(t) ==
  /\ threads[t].pc = "idle" /\ threads[t].op = "music" /\ threads[t].status = 200
  /\ t \in DOMAIN sessions
  /\ CurrentMusic(sessions[t]) # None
  /\ sessions[t].active_musics[1] \in DOMAIN audio_data
  /\ "data" \in DOMAIN audio_data[sessions[t].active_musics[1]]

\* C19 (SpecLive): a get that waits for the task of a Pending entry returns
\* in the end, and it returns the audio, the entry being Ready then; a get
\* that finds the entry Ready returns the audio without waiting.
C19_PendingGetReturns ==
  /\ \A t \in Threads : InGet(t) ~> ~InGet(t)
  /\ [][\A t \in Threads :
         /\ (InGet(t) /\ ~InGet(t)') => GotAudio(t)'
         /\ (threads[t].pc = "get_check" /\ threads'[t].pc # "get_check"
               /\ threads[t].music \in DOMAIN audio_data
               /\ "data" \in DOMAIN audio_data[threads[t].music]) => GotAudio(t)'
      ]_vars

\* C20 (Spec): in every state of a registered session the window holds
\* min(3, total - guessed) musics, the window followed by the musics not yet
\* activated is total - guessed musics with no music twice, and the session
\* is finished exactly when its window is empty.
C20_WindowTracksProgress ==
  \A c \in DOMAIN sessions :
    LET s == sessions[c]
        left == NTracks - s.guessed
    IN  /\ Len(s.active_musics) = IF left < 3 THEN left ELSE 3
        /\ Len(Remaining(s)) = left
        /\ \A i, j \in 1..Len(Remaining(s)) : Remaining(s)[i] = Remaining(s)[j] => i = j
        /\ Finished(s) <=> s.active_musics = <<>>

\* a session on the music before the last of its order: a window of two
C20_Witness ==
  \E c \in DOMAIN sessions :
    /\ sessions[c].guessed = NTracks - 2
    /\ Len(sessions[c].active_musics) = 2
    /\ sessions[c].musics = <<>>
    /\ ~Finished(sessions[c])
    /\ last.op = "next" /\ last.cookie = c

\* C21 (Spec): after every request the summary of a session has
\* correct <= guessed <= total, guessed being the guessed counter plus 1
\* when the current music is finalized; a request adds at most 1 to the
\* correct counter, and only by finalizing the current music; a step on an
\* unresolved music adds 1 to the guessed counter and nothing to the
\* correct counter.
C21_SummaryOrdered ==
  [][\A c \in DOMAIN sessions' :
       LET s2 == sessions'[c]
           sum == Summarize(s2)
       IN  /\ sum.guessed = s2.guessed + (IF s2.finalized THEN 1 ELSE 0)
           /\ sum.correct = s2.succeed
           /\ sum.correct <= sum.guessed
           /\ sum.guessed <= sum.total
           /\ c \in DOMAIN sessions =>
                LET s == sessions[c]
                IN  /\ s2.succeed \in {s.succeed, s.succeed + 1}
                    /\ s2.succeed = s.succeed + 1 =>
                         ~s.finalized /\ s2.finalized /\ s2.guessed = s.guessed
                    /\ (Request("next", c) /\ CurrentMusic(s) # None /\ ~s.finalized) =>
                         s2.guessed = s.guessed + 1 /\ s2.succeed = s.succeed
    ]_vars

\* a session that was credited for its first music, has stepped over the
\* second and has asked for the answer of the third
C21_Witness ==
  \E c \in DOMAIN sessions :
    /\ last.op = "answer" /\ last.cookie = c /\ last.status = 200
    /\ notes[c].finalized_by = "reveal"
    /\ sessions[c].guessed = 2
    /\ sessions[c].succeed = 1
    /\ Summarize(sessions[c]).guessed = 3

(***************************************************************************)
(* The local (desktop) variant, main.py.  Tk runs every callback of the    *)
(* form to its end on the one event-loop thread, so a callback is one      *)
(* step; the player thread only clears _playing when it ends.  The record  *)
(* game holds the fields of the Game object: musics (the shuffled order),  *)
(* current_index (0-based, as in the code), correct, finalized, answer     *)
(* (the StringVar of the selector, 0 for the empty string), shown (the     *)
(* answer label is packed), playing (_playing is not None), audio_data (the*)
(* track whose decoded audio is held, 0 for None), form (the form on the   *)
(* window) and op, a history field naming the last callback.               *)
(***************************************************************************)

\* _get_display_name: the names of a file joined; two files of the catalog
\* may carry the same names (the same stem under two extensions), so tracks
\* 1 and 2 share a display name, tracks 3 and 4 the next one, and so on
DisplayName(music) == (music + 1) \div 2

\* Game.__init__: one candidate per display name of the catalog
Candidates == {DisplayName(m) : m \in Tracks}

\* Game._display_name: the display name of the current track
Game_display_name(g) == DisplayName(g.musics[g.current_index + 1])

\* Game.__init__ with the shuffle drawn as order
Game_init(order) ==
  [form |-> "game", musics |-> order, current_index |-> 0, correct |-> 0,
   finalized |-> FALSE, answer |-> 0, shown |-> FALSE, playing |-> FALSE,
   audio_data |-> 0, op |-> "start"]

\* Game.load_data: hides the answer; past the last track it unloads the form
\* and puts the start page back (returning False), else it decodes the
\* current track.  decoded = FALSE is AudioSegment.from_file raising, which
\* leaves the audio of the track before; randint raising on an empty range
\* happens after _audio_data is assigned and changes no field kept here.
Game_load_data(g, decoded) ==
  LET hidden == [g EXCEPT !.shown = FALSE]
  IN  IF g.current_index = Len(g.musics)
        THEN [g |-> [hidden EXCEPT !.form = "start"], ret |-> FALSE]
        ELSE IF decoded
               THEN [g |-> [hidden EXCEPT !.audio_data = g.musics[g.current_index + 1]],
                     ret |-> TRUE]
               ELSE [g |-> hidden, ret |-> TRUE]

\* Game._show_answer
Game_show_answer(g) == [g EXCEPT !.shown = TRUE]

\* Game.submit
Game_submit(g) ==
  IF g.finalized
    THEN g
    ELSE Game_show_answer(
           [g EXCEPT !.finalized = TRUE,
                     !.correct = IF g.answer = Game_display_name(g) THEN @ + 1 ELSE @])

Game_next_advances(g, decoded) ==
  Game_load_data([g EXCEPT !.current_index = @ + 1, !.finalized = FALSE], decoded).g

\* Game.next: the first press on a track reveals it, the second moves on
Game_next(g, decoded) ==
  IF ~g.finalized
    THEN Game_show_answer([g EXCEPT !.finalized = TRUE])
    ELSE Game_load_data([g EXCEPT !.current_index = @ + 1, !.finalized = FALSE], decoded).g

\* Game.play: slicing _audio_data raises while nothing is decoded
Game_play(g) ==
  IF g.playing \/ g.audio_data = 0 THEN g ELSE [g EXCEPT !.playing = TRUE]

\* Game.play_continue: reveals the track before the slice is taken
Game_play_continue(g) ==
  IF g.playing
    THEN g
    ELSE LET revealed == IF g.finalized THEN g
                         ELSE Game_show_answer([g EXCEPT !.finalized = TRUE])
         IN  IF g.audio_data = 0 THEN revealed ELSE [revealed EXCEPT !.playing = TRUE]

\* the variables of the server, which the desktop variant never touches
ServerVars ==
  <<audio_data, tasks, decodes, sessions, issued, last, notes, loads, unloads, threads>>

\* StartPage.start: Game.__init__, then Game.load_to (update_status, load_data)
GameStart ==
  /\ game.form = "start"
  /\ \E order \in Shuffles, decoded \in BOOLEAN :
       game' = Game_load_data(Game_init(order), decoded).g
  /\ UNCHANGED ServerVars

\* a command of the selector menu: self._answer.set(value)
GameSelect ==
  /\ game.form = "game"
  /\ \E value \in Candidates : game' = [game EXCEPT !.answer = value, !.op = "select"]
  /\ UNCHANGED ServerVars

\* the confirm button
GameSubmit ==
  /\ game.form = "game"
  /\ game' = [Game_submit(game) EXCEPT !.op = "submit"]
  /\ UNCHANGED ServerVars

\* the next button
GameNext ==
  /\ game.form = "game"
  /\ \E decoded \in BOOLEAN : game' = [Game_next(game, decoded) EXCEPT !.op = "next"]
  /\ UNCHANGED ServerVars

\* the play button
GamePlay ==
  /\ game.form = "game"
  /\ game' = [Game_play(game) EXCEPT !.op = "play"]
  /\ UNCHANGED ServerVars

\* the continue button
GameContinue ==
  /\ game.form = "game"
  /\ game' = [Game_play_continue(game) EXCEPT !.op = "play_continue"]
  /\ UNCHANGED ServerVars

\* Game.play_audio reaches its finally clause
GamePlayEnds ==
  /\ game.playing
  /\ game' = [game EXCEPT !.playing = FALSE, !.op = "play_audio"]
  /\ UNCHANGED ServerVars

NextGame ==
  \/ GameStart
  \/ GameSelect
  \/ GameSubmit
  \/ GameNext
  \/ GamePlay
  \/ GameContinue
  \/ GamePlayEnds

SpecGame == Init /\ [][NextGame]_vars

\* C22: in the desktop variant, submit on an Unresolved track always sets
\* Finalized and adds 1 to correct exactly when the chosen answer equals the
\* track's display name, and changes nothing once Finalized; next on an
\* Unresolved track only sets Finalized (showing the answer, no credit) and
\* keeps the index, and on a Finalized track adds 1 to the index and clears
\* Finalized; the index moves only off a Finalized track, and
\* correct <= current_index + (1 if Finalized) throughout.
C22_LocalSubmitAndNext ==
  [][LET g == game
         g2 == game'
         credit == IF g.answer = DisplayName(g.musics[g.current_index + 1]) THEN 1 ELSE 0
     IN  /\ (g.form = "game" /\ g2.op = "submit") =>
              IF ~g.finalized
                THEN /\ g2.finalized
                     /\ g2.correct = g.correct + credit
                     /\ g2.current_index = g.current_index
                ELSE g2 = [g EXCEPT !.op = "submit"]
         /\ (g.form = "game" /\ g2.op = "next") =>
              IF ~g.finalized
                THEN /\ g2.finalized
                     /\ g2.shown
                     /\ g2.correct = g.correct
                     /\ g2.current_index = g.current_index
                ELSE /\ ~g2.finalized
                     /\ g2.correct = g.correct
                     /\ g2.current_index = g.current_index + 1
         /\ (g2.op # "start" /\ g2.current_index # g.current_index) =>
              /\ g.finalized
              /\ g2.op = "next"
              /\ g2.current_index = g.current_index + 1
         /\ g2.correct <= g2.current_index + (IF g2.finalized THEN 1 ELSE 0)
    ]_vars

\* the third track is submitted with an answer that is not its name, after
\* one earlier track was credited and another was passed by next alone
C22_Witness ==
  /\ game.form = "game"
  /\ game.op = "submit"
  /\ game.current_index = 2
  /\ game.finalized
  /\ game.correct = 1
  /\ game.answer \in Candidates
  /\ game.answer # Game_display_name(game)

====
